---- MODULE Spec2Model ----
(***************************************************************************)
(* Model of src/tawala/static/tawala/js/scroll-top.js: the scroll-to-top   *)
(* control.  The script runs top to bottom once (lines 1, 10, 18, 19);     *)
(* afterwards the host dispatches load, scroll and click events to the     *)
(* listeners the script managed to register.  The host side (viewport,     *)
(* smooth scrolling, event queue, default actions) follows the DOM and     *)
(* CSSOM View rules the script relies on.                                  *)
(***************************************************************************)
EXTENDS Integers, Sequences, FiniteSets

\* ---------------------------------------------------------------- bounds
MaxScrollY == 150       \* height of the scrollable range that is explored
MaxClicks == 2          \* clicks the user makes in one session
CounterMod == 3         \* invocation counters are kept modulo this

\* ------------------------------------------------------ program constants
Threshold == 100        \* window.scrollY > 100
ScrollTopTarget == 0    \* top: 0

Null == "null"
Unresolved == "unresolved"
Control == "control"

\* offsets by which one user gesture, or one frame of an animation, moves
ScrollDeltas == {1, 50}

VARIABLES
    pc,             \* position of the script: the line about to run
    controlInDom,   \* the document holds an element with id "scroll-top"
    scrollTop,      \* const scrollTop (line 1)
    listeners,      \* registered listeners, as <<target, event type>>
    classList,      \* scrollTop.classList, restricted to the names used
    scrollY,        \* window.scrollY
    scrollPending,  \* the document has a scroll event waiting for dispatch
    smooth,         \* smooth scroll of the viewport: none, running, aborted
    scrollTarget,   \* where the running smooth scroll ends
    loaded,         \* the load event has been dispatched
    clicks,         \* clicks dispatched on the control element
    scrollToCmds,   \* window.scrollTo calls made so far
    preventDefaults,\* e.preventDefault calls made so far
    navigations,    \* default actions of a click the host carried out
    lastCalls,      \* host calls made during the latest click dispatch
    evaluations,    \* toggleScrollTop invocations, modulo CounterMod
    sinceEval,      \* "moved": scrollY changed since the latest invocation;
                    \* "once", "repeated": invocations that read this scrollY
    clickedDuring,  \* state of the smooth scroll when the latest click came
    readAbove,      \* the latest invocation read a scrollY above Threshold
    quiet           \* the user has stopped scrolling for good

vars == <<pc, controlInDom, scrollTop, listeners, classList, scrollY,
          scrollPending, smooth, scrollTarget, loaded, clicks, scrollToCmds,
          preventDefaults, navigations, lastCalls, evaluations, sinceEval,
          clickedDuring, readAbove, quiet>>

Offsets == 0..MaxScrollY

active == "active" \in classList

evalFresh == sinceEval # "moved"

ScriptEnded == pc \in {"done", "threw"}
ScriptIdle == pc \in {"line1", "done", "threw"}

\* ------------------------------------------------------------- the script

\* document.getElementById("scroll-top"): the element, or null
getElementById(inDom) == IF inDom THEN Control ELSE Null

\* variant: the reference is looked up again whenever the script is idle
Lookup_again ==
    /\ ScriptIdle
    /\ scrollTop' = getElementById(controlInDom)
    /\ pc' = IF pc = "line1" THEN "line10" ELSE pc
    /\ scrollTop' # scrollTop
    /\ UNCHANGED <<controlInDom, listeners, classList, scrollY, scrollPending,
                   smooth, scrollTarget, loaded, clicks, scrollToCmds,
                   preventDefaults, navigations, lastCalls, evaluations,
                   sinceEval, clickedDuring, readAbove, quiet>>

\* line 1
Lookup ==
    /\ pc = "line1"
    /\ scrollTop' = getElementById(controlInDom)
    /\ pc' = "line10"
    /\ UNCHANGED <<controlInDom, listeners, classList, scrollY, scrollPending,
                   smooth, scrollTarget, loaded, clicks, scrollToCmds,
                   preventDefaults, navigations, lastCalls, evaluations,
                   sinceEval, clickedDuring, readAbove, quiet>>

\* variant: the failed registration is swallowed and the script goes on
BindClickNext_swallow(ref) == "line18"

\* line 10: scrollTop.addEventListener("click", ...) with no guard on
\* scrollTop; on null the member access throws a TypeError and the rest of
\* the script is not run
BindClickNext(ref) == IF ref = Null THEN "threw" ELSE "line18"

BindClickListeners(ref, ls) ==
    IF ref = Null THEN ls ELSE ls \cup {<<ref, "click">>}

BindClick ==
    /\ pc = "line10"
    /\ pc' = BindClickNext(scrollTop)
    /\ listeners' = BindClickListeners(scrollTop, listeners)
    /\ UNCHANGED <<controlInDom, scrollTop, classList, scrollY, scrollPending,
                   smooth, scrollTarget, loaded, clicks, scrollToCmds,
                   preventDefaults, navigations, lastCalls, evaluations,
                   sinceEval, clickedDuring, readAbove, quiet>>

\* line 18
BindLoad ==
    /\ pc = "line18"
    /\ listeners' = listeners \cup {<<"window", "load">>}
    /\ pc' = "line19"
    /\ UNCHANGED <<controlInDom, scrollTop, classList, scrollY, scrollPending,
                   smooth, scrollTarget, loaded, clicks, scrollToCmds,
                   preventDefaults, navigations, lastCalls, evaluations,
                   sinceEval, clickedDuring, readAbove, quiet>>

\* variant: the scroll listener is not registered
BindScroll_skip ==
    /\ pc = "line19"
    /\ pc' = "done"
    /\ UNCHANGED <<controlInDom, scrollTop, listeners, classList, scrollY,
                   scrollPending, smooth, scrollTarget, loaded, clicks,
                   scrollToCmds, preventDefaults, navigations, lastCalls,
                   evaluations, sinceEval, clickedDuring, readAbove, quiet>>

\* line 19
BindScroll ==
    /\ pc = "line19"
    /\ listeners' = listeners \cup {<<"document", "scroll">>}
    /\ pc' = "done"
    /\ UNCHANGED <<controlInDom, scrollTop, classList, scrollY, scrollPending,
                   smooth, scrollTarget, loaded, clicks, scrollToCmds,
                   preventDefaults, navigations, lastCalls, evaluations,
                   sinceEval, clickedDuring, readAbove, quiet>>

\* ------------------------------------------------------------ the handlers

\* variant: the comparison is >= instead of >
toggleScrollTop_ge(ref, y, cl) ==
    IF ref # Null
    THEN IF y >= Threshold THEN cl \cup {"active"} ELSE cl \ {"active"}
    ELSE cl

\* variant: classList.toggle instead of classList.add
toggleScrollTop_toggle(ref, y, cl) ==
    IF ref # Null
    THEN IF y > Threshold
         THEN (IF "active" \in cl THEN cl \ {"active"} ELSE cl \cup {"active"})
         ELSE cl \ {"active"}
    ELSE cl

\* variant: the marker is added above the threshold and never removed
toggleScrollTop_addOnly(ref, y, cl) ==
    IF ref # Null
    THEN IF y > Threshold THEN cl \cup {"active"} ELSE cl
    ELSE cl

\* lines 3-9: the class list of the control after toggleScrollTop has run
\* with reference ref, offset y and class list cl
toggleScrollTop(ref, y, cl) ==
    IF ref # Null
    THEN IF y > Threshold THEN cl \cup {"active"} ELSE cl \ {"active"}
    ELSE cl

\* A click event in dispatch: whether its default was prevented, and the
\* host calls the listener has made, in order.
NewEvent == [defaultPrevented |-> FALSE, calls |-> <<>>]

preventDefault(e) ==
    [e EXCEPT !.defaultPrevented = TRUE,
              !.calls = Append(@, <<"preventDefault">>)]

scrollTo(e, top, behavior) ==
    [e EXCEPT !.calls = Append(@, <<"scrollTo", top, behavior>>)]

\* variants of the click listener: no preventDefault; a target other than
\* the top; scrollTo before preventDefault; an instant scroll
onActivate_noPrevent(e) == scrollTo(e, ScrollTopTarget, "smooth")

onActivate_top50(e) == scrollTo(preventDefault(e), 50, "smooth")

onActivate_swapped(e) == preventDefault(scrollTo(e, ScrollTopTarget, "smooth"))

onActivate_instant(e) == scrollTo(preventDefault(e), ScrollTopTarget, "auto")

\* variant: the click listener also hides the control
onActivate_hides(e) ==
    [scrollTo(preventDefault(e), ScrollTopTarget, "smooth")
        EXCEPT !.calls = Append(@, <<"classList.remove", "active">>)]

\* lines 10-16: the click listener
onActivate(e) == scrollTo(preventDefault(e), ScrollTopTarget, "smooth")

\* --------------------------------------------------------------- the host

IsScrollTo(c) == c[1] = "scrollTo"

CountCalls(calls, name) ==
    Cardinality({i \in 1..Len(calls) : calls[i][1] = name})

\* The viewport after the scrollTo calls of one dispatch, in order.  A call
\* aborts the smooth scroll in progress; a smooth one to another offset
\* starts a new smooth scroll, any other one moves the viewport at once.
RECURSIVE ViewportAfter(_, _)
ViewportAfter(calls, vp) ==
    IF calls = <<>> THEN vp
    ELSE LET c == Head(calls)
             nv == IF ~IsScrollTo(c) THEN vp
                   ELSE IF c[2] = vp.y
                        THEN [vp EXCEPT !.smooth = "none"]
                   ELSE IF c[3] = "smooth"
                        THEN [vp EXCEPT !.smooth = "running", !.target = c[2]]
                   ELSE [vp EXCEPT !.smooth = "none", !.y = c[2],
                                   !.pending = TRUE, !.since = "moved"]
         IN ViewportAfter(Tail(calls), nv)

\* The class list of the control after the classList calls of one dispatch.
RECURSIVE ClassListAfter(_, _)
ClassListAfter(calls, cl) ==
    IF calls = <<>> THEN cl
    ELSE LET c == Head(calls)
             ncl == IF c[1] = "classList.add" THEN cl \cup {c[2]}
                    ELSE IF c[1] = "classList.remove" THEN cl \ {c[2]}
                    ELSE cl
         IN ClassListAfter(Tail(calls), ncl)

\* The user moves the viewport (wheel, keys, scrollbar); a smooth scroll in
\* progress is aborted by it.
UserScroll ==
    /\ ScriptIdle
    /\ ~quiet
    /\ \E d \in ScrollDeltas, up \in BOOLEAN :
         LET y == IF up THEN scrollY - d ELSE scrollY + d IN
         /\ y \in Offsets
         /\ scrollY' = y
    /\ scrollPending' = TRUE
    /\ sinceEval' = "moved"
    /\ smooth' = IF smooth = "running" THEN "aborted" ELSE smooth
    /\ UNCHANGED <<pc, controlInDom, scrollTop, listeners, classList,
                   scrollTarget, loaded, clicks, scrollToCmds,
                   preventDefaults, navigations, lastCalls, evaluations,
                   clickedDuring, readAbove, quiet>>

\* One frame of the smooth scroll: the viewport moves towards the target by
\* a host-defined amount, possibly all the way.
AnimStep ==
    /\ ScriptIdle
    /\ smooth = "running"
    /\ \E y \in Offsets :
         /\ \/ y = scrollTarget
            \/ \E d \in ScrollDeltas :
                 \/ y = scrollY - d /\ y > scrollTarget
                 \/ y = scrollY + d /\ y < scrollTarget
         /\ scrollY' = y
         /\ smooth' = IF y = scrollTarget THEN "none" ELSE "running"
    /\ scrollPending' = TRUE
    /\ sinceEval' = "moved"
    /\ UNCHANGED <<pc, controlInDom, scrollTop, listeners, classList,
                   scrollTarget, loaded, clicks, scrollToCmds,
                   preventDefaults, navigations, lastCalls, evaluations,
                   clickedDuring, readAbove, quiet>>

\* The listener toggleScrollTop runs if it is registered for <<target, type>>.
RunToggle(target, type) ==
    IF <<target, type>> \in listeners
    THEN /\ classList' = toggleScrollTop(scrollTop, scrollY, classList)
         /\ evaluations' = (evaluations + 1) % CounterMod
         /\ sinceEval' = IF sinceEval = "moved" THEN "once" ELSE "repeated"
         /\ readAbove' = (scrollY > Threshold)
    ELSE UNCHANGED <<classList, evaluations, sinceEval, readAbove>>

\* The host dispatches the pending scroll event at the document.
DeliverScroll ==
    /\ ScriptIdle
    /\ scrollPending
    /\ scrollPending' = FALSE
    /\ RunToggle("document", "scroll")
    /\ UNCHANGED <<pc, controlInDom, scrollTop, listeners, scrollY, smooth,
                   scrollTarget, loaded, clicks, scrollToCmds,
                   preventDefaults, navigations, lastCalls, clickedDuring,
                   quiet>>

\* The host dispatches the load event at the window, once, after the script.
LoadEvent ==
    /\ ScriptEnded
    /\ ~loaded
    /\ loaded' = TRUE
    /\ RunToggle("window", "load")
    /\ UNCHANGED <<pc, controlInDom, scrollTop, listeners, scrollY,
                   scrollPending, smooth, scrollTarget, clicks, scrollToCmds,
                   preventDefaults, navigations, lastCalls, clickedDuring,
                   quiet>>

\* The user clicks the control element of the document: the host dispatches
\* the event to the click listeners of that element, then carries out the
\* default action unless it was prevented.
Click ==
    /\ ScriptEnded
    /\ controlInDom
    /\ clicks < MaxClicks
    /\ LET e == IF <<Control, "click">> \in listeners
                THEN onActivate(NewEvent) ELSE NewEvent
           vp == ViewportAfter(e.calls,
                    [y |-> scrollY, smooth |-> smooth, target |-> scrollTarget,
                     pending |-> scrollPending, since |-> sinceEval])
       IN /\ lastCalls' = e.calls
          /\ scrollToCmds' = scrollToCmds + CountCalls(e.calls, "scrollTo")
          /\ preventDefaults' =
                preventDefaults + CountCalls(e.calls, "preventDefault")
          /\ navigations' =
                IF e.defaultPrevented THEN navigations ELSE navigations + 1
          /\ scrollY' = vp.y
          /\ smooth' = vp.smooth
          /\ scrollTarget' = vp.target
          /\ scrollPending' = vp.pending
          /\ sinceEval' = vp.since
          /\ classList' = ClassListAfter(e.calls, classList)
    /\ clicks' = clicks + 1
    /\ clickedDuring' = smooth
    /\ UNCHANGED <<pc, controlInDom, scrollTop, listeners, loaded,
                   evaluations, readAbove, quiet>>

\* Another script adds an element with id "scroll-top" after this one ran.
InsertControl ==
    /\ ScriptEnded
    /\ ~controlInDom
    /\ controlInDom' = TRUE
    /\ UNCHANGED <<pc, scrollTop, listeners, classList, scrollY, scrollPending,
                   smooth, scrollTarget, loaded, clicks, scrollToCmds,
                   preventDefaults, navigations, lastCalls, evaluations,
                   sinceEval, clickedDuring, readAbove, quiet>>

\* The user stops scrolling for good while a smooth scroll is in progress.
UserStops ==
    /\ smooth = "running"
    /\ ~quiet
    /\ quiet' = TRUE
    /\ UNCHANGED <<pc, controlInDom, scrollTop, listeners, classList, scrollY,
                   scrollPending, smooth, scrollTarget, loaded, clicks,
                   scrollToCmds, preventDefaults, navigations, lastCalls,
                   evaluations, sinceEval, clickedDuring, readAbove>>

\* ------------------------------------------------------- the specification

Init ==
    /\ pc = "line1"
    /\ controlInDom \in BOOLEAN
    /\ scrollTop = Unresolved
    /\ listeners = {}
    /\ classList \in (IF controlInDom THEN {{}, {"active"}} ELSE {{}})
    /\ scrollY = 0
    /\ scrollPending = FALSE
    /\ smooth = "none"
    /\ scrollTarget = 0
    /\ loaded = FALSE
    /\ clicks = 0
    /\ scrollToCmds = 0
    /\ preventDefaults = 0
    /\ navigations = 0
    /\ lastCalls = <<>>
    /\ evaluations = 0
    /\ sinceEval = "moved"
    /\ clickedDuring = "none"
    /\ readAbove = FALSE
    /\ quiet = FALSE

Next ==
    \/ Lookup
    \/ BindClick
    \/ BindLoad
    \/ BindScroll
    \/ UserScroll
    \/ AnimStep
    \/ DeliverScroll
    \/ LoadEvent
    \/ Click
    \/ InsertControl

Spec == Init /\ [][Next]_vars

\* The host keeps animating a smooth scroll in progress and keeps
\* dispatching a pending scroll event.
LiveSpec ==
    /\ Spec
    /\ WF_vars(AnimStep)
    /\ WF_vars(DeliverScroll)

\* The same, with a user who may stop scrolling for good.
QuietNext ==
    \/ Next
    \/ UserStops

QuietSpec ==
    /\ Init
    /\ [][QuietNext]_vars
    /\ WF_vars(AnimStep)
    /\ WF_vars(DeliverScroll)

TypeOK ==
    /\ pc \in {"line1", "line10", "line18", "line19", "done", "threw"}
    /\ controlInDom \in BOOLEAN
    /\ scrollTop \in {Unresolved, Null, Control}
    /\ classList \subseteq {"active"}
    /\ scrollY \in Offsets
    /\ scrollPending \in BOOLEAN
    /\ smooth \in {"none", "running", "aborted"}
    /\ scrollTarget \in Offsets
    /\ loaded \in BOOLEAN
    /\ clicks \in 0..MaxClicks
    /\ evaluations \in 0..(CounterMod - 1)
    /\ sinceEval \in {"moved", "once", "repeated"}
    /\ clickedDuring \in {"none", "running", "aborted"}
    /\ readAbove \in BOOLEAN
    /\ quiet \in BOOLEAN

\* ----------------------------------------------------------------- claims

\* a step in which toggleScrollTop was invoked
Evaluated == evaluations' # evaluations

\* a step in which the pending scroll event was dispatched
ScrollDelivered == scrollPending /\ ~scrollPending'

\* a step in which the load event was dispatched
LoadDelivered == ~loaded /\ loaded'

\* a step in which a click on the control element was dispatched
Clicked == clicks' = clicks + 1

\* C1 (threshold law): with the control present, right after every
\* invocation of toggleScrollTop the control carries "active" iff the
\* scroll offset it read is greater than 100 (100 itself is inactive).
C1_ThresholdLaw ==
    [][(Evaluated /\ scrollTop = Control) =>
          (("active" \in classList') <=> (scrollY > Threshold))]_vars

\* C1 witness: after the load event, an invocation has just read offset
\* 100 with the control present and left it inactive.
C1_Witness ==
    /\ scrollTop = Control
    /\ loaded
    /\ sinceEval = "once"
    /\ scrollY = Threshold
    /\ ~active

\* C2 (null-safety), as claimed: the script never ends in an error.
C2_NeverThrows == pc # "threw"

\* C3 (activation effect): with the control reference present, after any
\* number of clicks the scrollTo calls and the preventDefault calls both
\* number exactly the clicks, and the latest click made exactly one
\* scrollTo(top 0, smooth) call and exactly one preventDefault call.
C3_ActivationEffect ==
    scrollTop = Control =>
        /\ scrollToCmds = clicks
        /\ preventDefaults = clicks
        /\ clicks > 0 =>
              /\ Len(lastCalls) = 2
              /\ CountCalls(lastCalls, "preventDefault") = 1
              /\ \E i \in 1..Len(lastCalls) :
                    lastCalls[i] = <<"scrollTo", 0, "smooth">>

\* C3 witness: two clicks on the control have been handled.
C3_Witness ==
    /\ scrollTop = Control
    /\ clicks = 2
    /\ scrollToCmds = 2
    /\ preventDefaults = 2

\* C4 (wiring), as claimed: the load event, and every scroll event
\* dispatched after it, invokes toggleScrollTop exactly once.
C4_Wiring ==
    [][(LoadDelivered \/ (loaded /\ ScrollDelivered)) =>
          evaluations' = (evaluations + 1) % CounterMod]_vars

\* C5 (scroll-to-top liveness), as claimed: whenever a click has started
\* the scroll to the top, the scroll offset eventually becomes 0.
C5_ClickReachesTop == (smooth = "running") ~> (scrollY = 0)

\* C5, amended: whenever a click has started the scroll to the top, the
\* scroll offset eventually becomes 0, unless the user scrolls while the
\* animation is in progress, which aborts it.
C5_ClickReachesTopUnlessAborted ==
    (smooth = "running") ~> (scrollY = 0 \/ smooth = "aborted")

\* C5 witness: a click at offset 150 has started the animated scroll.
C5_Witness ==
    /\ scrollTop = Control
    /\ smooth = "running"
    /\ scrollY = 150
    /\ scrollToCmds > 0

\* C6 (idempotence): an invocation of toggleScrollTop that reads the same
\* scroll offset as the invocation before it leaves the class list, and
\* so the visual state, as that invocation left it.
C6_Idempotence ==
    [][(Evaluated /\ evalFresh /\ scrollY' = scrollY) =>
          classList' = classList]_vars

\* C6 witness: the control is present and toggleScrollTop has run twice on
\* the same offset above the threshold.
C6_Witness ==
    /\ scrollTop = Control
    /\ sinceEval = "repeated"
    /\ scrollY > Threshold
    /\ active

\* C7 (no unintended navigation): with the control reference present, no
\* click has led to the default navigation, and in the latest click every
\* preventDefault call came before every scrollTo call, both being made.
C7_NoNavigation ==
    scrollTop = Control =>
        /\ navigations = 0
        /\ \A i, j \in 1..Len(lastCalls) :
              (lastCalls[i][1] = "preventDefault" /\ lastCalls[j][1] = "scrollTo")
                 => i < j
        /\ clicks > 0 =>
              /\ CountCalls(lastCalls, "preventDefault") > 0
              /\ CountCalls(lastCalls, "scrollTo") > 0

\* C7 witness: a click on the control has been handled with the viewport
\* away from the top.
C7_Witness ==
    /\ scrollTop = Control
    /\ clicks > 0
    /\ lastCalls # <<>>
    /\ scrollY > 0

\* C8 (absent-control wiring): when the lookup found no control, the click
\* registration is where the script ends, with an error; no listener is
\* ever registered, toggleScrollTop is never invoked, and no click is
\* ever handled.
C8_AbsentControlWiring ==
    scrollTop = Null =>
        /\ pc \in {"line10", "threw"}
        /\ listeners = {}
        /\ evaluations = 0
        /\ sinceEval = "moved"
        /\ scrollToCmds = 0
        /\ preventDefaults = 0
        /\ lastCalls = <<>>

\* C8 witness: the script failed on the absent control; since then the load
\* event and a scroll event were dispatched, and an element that appeared
\* later was clicked.
C8_Witness ==
    /\ pc = "threw"
    /\ loaded
    /\ scrollY > Threshold
    /\ ~scrollPending
    /\ clicks > 0

\* C9 (read-only reference): the control reference changes only in the
\* lookup of line 1; no load, scroll or click event, and no later change of
\* the document, changes it.
C9_ReferenceReadOnly ==
    [][(scrollTop' # scrollTop) => (pc = "line1" /\ pc' = "line10")]_vars

\* C9 witness: the reference is still null although an element with the
\* identifier has appeared, and load, scroll and click events have passed.
C9_Witness ==
    /\ scrollTop = Null
    /\ controlInDom
    /\ loaded
    /\ ~scrollPending
    /\ scrollY > 0
    /\ clicks > 0

\* C10 (fire and forget): a handled click is one step that leaves the
\* scroll offset where it is, registers nothing, issues one more scrollTo
\* call whether or not an animation is in progress, and leaves an animation
\* towards the top running unless the viewport is at the top already; a
\* scroll event dispatched while the animation runs re-evaluates the
\* marker against the offset of that moment and leaves the animation alone.
C10_FireAndForget ==
    [][/\ (Clicked /\ scrollTop = Control) =>
            /\ scrollY' = scrollY
            /\ listeners' = listeners
            /\ pc' = pc
            /\ scrollToCmds' = scrollToCmds + 1
            /\ smooth' = IF scrollY = 0 THEN "none" ELSE "running"
            /\ scrollTarget' = 0
       /\ (ScrollDelivered /\ smooth = "running") =>
            /\ Evaluated
            /\ ("active" \in classList') <=> (scrollY > Threshold)
            /\ smooth' = smooth
            /\ scrollTarget' = scrollTarget
            /\ scrollY' = scrollY]_vars

\* C10 witness: a second click was handled while the animation of the
\* first was in progress, and the animation is running.
C10_Witness ==
    /\ scrollTop = Control
    /\ clickedDuring = "running"
    /\ smooth = "running"
    /\ scrollToCmds = 2
    /\ scrollY > 0

\* C11 (frame conditions): a step that invokes toggleScrollTop leaves the
\* scroll offset, the smooth scroll, the scrollTo and preventDefault
\* counts, the navigations, the listeners and the control reference as
\* they are; a click leaves the class list as it is; and the class list
\* changes only in a step that invokes toggleScrollTop.
C11_FrameConditions ==
    [][/\ Evaluated =>
            /\ scrollY' = scrollY
            /\ smooth' = smooth
            /\ scrollTarget' = scrollTarget
            /\ scrollToCmds' = scrollToCmds
            /\ preventDefaults' = preventDefaults
            /\ navigations' = navigations
            /\ lastCalls' = lastCalls
            /\ listeners' = listeners
            /\ scrollTop' = scrollTop
       /\ Clicked => classList' = classList
       /\ (classList' # classList) => Evaluated]_vars

\* C11 witness: the control is active, above the threshold, marked by an
\* invocation of toggleScrollTop, and a click on it has since been handled
\* and has started the animation.
C11_Witness ==
    /\ scrollTop = Control
    /\ active
    /\ scrollY > Threshold
    /\ sinceEval = "once"
    /\ smooth = "running"
    /\ scrollToCmds = 1

\* C12 (marker consistency): with the control present, once the load
\* handler has run the marker is set iff the offset read by the latest
\* invocation of toggleScrollTop was above 100; hence whenever no scroll
\* event is pending the control is active iff the current offset is above
\* 100, and so it is whenever the offset has not changed since that
\* invocation.
C12_MarkerConsistency ==
    (scrollTop = Control /\ loaded) =>
        /\ active <=> readAbove
        /\ evalFresh => (active <=> (scrollY > Threshold))
        /\ ~scrollPending => (active <=> (scrollY > Threshold))

\* C12 witness: after the load handler the marker is stale: the control is
\* still active at offset 0, the scroll event being pending.
C12_Witness ==
    /\ scrollTop = Control
    /\ loaded
    /\ scrollPending
    /\ active
    /\ scrollY = 0

\* C13 (control hides after use): whenever a click has started the scroll
\* to the top with the control active above the threshold and the user
\* scrolls no more, the control eventually becomes inactive and stays so.
C13_HidesAfterUse ==
    (quiet /\ smooth = "running" /\ active /\ scrollY > Threshold)
        ~> [](~active)

\* C13 witness: a click has started the scroll to the top with the control
\* active above the threshold, and the user has stopped scrolling.
C13_Witness ==
    /\ scrollTop = Control
    /\ quiet
    /\ smooth = "running"
    /\ active
    /\ readAbove
    /\ scrollY > Threshold
    /\ scrollToCmds > 0
====
